---- MODULE Spec2Model ----
(***************************************************************************)
(* Model of Blink/Core/Inc/GpioFast.h: the functions generated by          *)
(* GPIO_output_functions(x) and GPIO_input_functions(x) for pins of one    *)
(* GPIO port, called from the main flow and from an interrupt handler.     *)
(*                                                                         *)
(* A 32-bit value is a record [hi, lo] of two 16-bit halves, so that bit   *)
(* 31 (the reset bit of pin 15) is representable.  The port's ODR and IDR  *)
(* hold 16 pin bits; their upper halves are reserved and read as 0.        *)
(***************************************************************************)
EXTENDS Integers, Sequences, FiniteSets, TLC

\* ------------------------------------------------------------ bounds
MaxQty == 3
MaxRun == 2

\* ------------------------------------------------------------ 32-bit values
Half == 2 ^ 16

W(h, l) == [hi |-> h, lo |-> l]

Zero32 == W(0, 0)

RECURSIVE BitAnd(_, _)
BitAnd(a, b) ==
    IF a = 0 \/ b = 0 THEN 0
    ELSE (a % 2) * (b % 2) + 2 * BitAnd(a \div 2, b \div 2)

RECURSIVE BitOr(_, _)
BitOr(a, b) ==
    IF a = 0 THEN b
    ELSE IF b = 0 THEN a
    ELSE (IF a % 2 = 1 \/ b % 2 = 1 THEN 1 ELSE 0) + 2 * BitOr(a \div 2, b \div 2)

RECURSIVE BitAndNot(_, _)
BitAndNot(a, b) ==
    IF a = 0 THEN 0
    ELSE IF b = 0 THEN a
    ELSE (IF a % 2 = 1 /\ b % 2 = 0 THEN 1 ELSE 0) + 2 * BitAndNot(a \div 2, b \div 2)

\* a & b on 32-bit operands
And32(a, b) == W(BitAnd(a.hi, b.hi), BitAnd(a.lo, b.lo))

\* a uint16_t operand after the integer promotions / the (uint32_t) cast
Promote16(m) == W(0, m % Half)

\* v << 16 in 32 bits: bits 15..0 move to 31..16, bits 31..16 are shifted out
Shl16(v) == W(v.lo, 0)

\* C truth value of a 32-bit operand, and the value of the expression 0 != v
IsTrue(v) == v.hi # 0 \/ v.lo # 0

Ne0(v) == IF IsTrue(v) THEN 1 ELSE 0

\* ------------------------------------------------------------ pins
OutputNames == {"dbg", "led"}
InputNames == {"btn"}
Names == OutputNames \cup InputNames

GPIO_PIN(k) == 2 ^ k

\* the bindings x -> x_Pin of the three names, one for every position of dbg
Bindings ==
    { [n \in Names |->
          CASE n = "dbg" -> GPIO_PIN(k)
            [] n = "led" -> GPIO_PIN((k + 1) % 16)
            [] n = "btn" -> GPIO_PIN((k + 2) % 16)] : k \in 0..15 }

\* the bindings under which the input register is driven from outside
ExternalBindings == { b \in Bindings : b["dbg"] \in {GPIO_PIN(0), GPIO_PIN(14)} }

SetArgs == {W(0, 0), W(0, 1), W(0, 2), W(32768, 0)}

NoPrev == [op |-> "none", arg |-> Zero32, result |-> 0]

VARIABLES
    Pin,        \* x_Pin of every name (fixed at build time)
    loopback,   \* IDR follows ODR (outputs read back) or is driven from outside
    ODR,        \* the port's output latch
    IDR,        \* the port's input data register
    pc,         \* position of the main flow
    op,         \* the function the main flow is in
    cur,        \* the name x of that function
    arg,        \* its argument
    qty,        \* x_pulse's loop counter
    tmp,        \* the value loaded by x_get
    result,     \* x_get's return value
    log,        \* BSRR values stored by the main flow during the current call
    lastLevel,  \* level of the last write issued for every output name
    prev,       \* the previous call, when on the same name and undisturbed
    disturbed,  \* what interrupts and input changes touched since the call
                \* began: "none", "other" (only pins other than cur), "any"
    run,        \* length of the current run of x_pulse(1) calls on cur
    runPulses   \* set/reset pairs stored by that run

vars == <<Pin, loopback, ODR, IDR, pc, op, cur, arg, qty, tmp, result, log,
          lastLevel, prev, disturbed, run, runPulses>>

x_Pin(x) == Pin[x]

\* ------------------------------------------------------------ hardware
\* level of the pin with mask m in the 16-bit register r
Level(r, m) == IF BitAnd(r, m) # 0 THEN 1 ELSE 0

\* effect of one store of v to BSRR: the upper half resets, the lower half sets
BSRR_effect(r, v) == BitOr(BitAndNot(r, v.hi), v.lo)

StoreBSRR(v) ==
    /\ ODR' = BSRR_effect(ODR, v)
    /\ IDR' = IF loopback THEN ODR' ELSE IDR

\* reads the output latch instead of the input register
LoadIDR_latch == W(0, ODR)

LoadIDR == W(0, IDR)

\* ------------------------------------------------------------ GpioFast.h
\* x_on with the shift of x_off
x_on_value_shifted(x) == Shl16(Promote16(x_Pin(x)))

\* x_on as a toggle: resets the pin when it is already high
x_on_value_toggle(x) ==
    IF Level(ODR, x_Pin(x)) = 1
    THEN Shl16(Promote16(x_Pin(x)))
    ELSE Promote16(x_Pin(x))

\* the value x_on() stores: (uint32_t)( x_Pin )
x_on_value(x) == Promote16(x_Pin(x))

\* ~x_Pin << 16: the inverted mask, as in ODR &= ~x_Pin
x_off_value_inverted(x) == W(Half - 1 - x_Pin(x), 0)

\* x_off without the shift
x_off_value_unshifted(x) == Promote16(x_Pin(x))

\* the shift overflowing the signed int: bit 31, the sign bit, is lost
x_off_value_signlost(x) == W(x_Pin(x) % (2 ^ 15), 0)

\* the value x_off() stores: (uint32_t)( x_Pin << 16 )
x_off_value(x) == Shl16(Promote16(x_Pin(x)))

x_on(x) ==
    /\ StoreBSRR(x_on_value(x))
    /\ lastLevel' = [lastLevel EXCEPT ![x] = 1]

x_off(x) ==
    /\ StoreBSRR(x_off_value(x))
    /\ lastLevel' = [lastLevel EXCEPT ![x] = 0]

\* if (arg == 1)
x_set_test_eq1(a) == a = W(0, 1)

\* if (arg) ... else ...
x_set_test(a) == IsTrue(a)

\* 0 != (x_GPIO_Port->IDR & x_Pin), on the loaded value v
x_get_value(v, x) == Ne0(And32(v, Promote16(x_Pin(x))))

\* the x_get of GPIO_input_functions(x)
input_get_value(v, x) == Ne0(And32(v, Promote16(x_Pin(x))))

\* for (; qty > 1; ...)
x_pulse_test_gt1(q) == q > 1

\* for (; qty; ...)
x_pulse_test(q) == q # 0

\* ------------------------------------------------------------ main flow
Idle == pc \in {"idle", "ret"}

\* bookkeeping of a call of function o on name x with argument a
Enter(o, x, a) ==
    /\ Idle
    /\ op' = o
    /\ cur' = x
    /\ arg' = a
    /\ tmp' = Zero32
    /\ result' = 0
    /\ log' = <<>>
    /\ disturbed' = "none"
    /\ prev' = IF disturbed = "none" /\ op # "none" /\ cur = x
               THEN [op |-> op, arg |-> arg, result |-> result]
               ELSE NoPrev
    /\ IF o = "pulse" /\ a = W(0, 1)
       THEN IF op = "pulse" /\ arg = W(0, 1) /\ cur = x /\ run < MaxRun
            THEN run' = run + 1 /\ runPulses' = runPulses
            ELSE run' = 1 /\ runPulses' = 0
       ELSE run' = 0 /\ runPulses' = 0
    /\ UNCHANGED <<Pin, loopback, ODR, IDR, lastLevel>>

Call_on(x) == Enter("on", x, Zero32) /\ pc' = "on" /\ qty' = 0

Call_off(x) == Enter("off", x, Zero32) /\ pc' = "off" /\ qty' = 0

Call_set(x, a) == Enter("set", x, a) /\ pc' = "set" /\ qty' = 0

Call_get(x) == Enter("get", x, Zero32) /\ pc' = "get" /\ qty' = 0

Call_pulse(x, q) == Enter("pulse", x, W(0, q)) /\ pc' = "pulse_test" /\ qty' = q

\* x_on as a read-modify-write of the output latch, ODR |= x_Pin, in two
\* steps: the load (tmp.hi marks it done) and the store
Main_on_rmw ==
    /\ pc \in {"on", "pulse_on"}
    /\ IF tmp.hi = 0
       THEN /\ tmp' = W(1, ODR)
            /\ UNCHANGED <<Pin, loopback, ODR, IDR, pc, op, cur, arg, qty, result,
                           log, lastLevel, prev, disturbed, run, runPulses>>
       ELSE /\ ODR' = BitOr(tmp.lo, x_Pin(cur))
            /\ IDR' = IF loopback THEN ODR' ELSE IDR
            /\ lastLevel' = [lastLevel EXCEPT ![cur] = 1]
            /\ tmp' = Zero32
            /\ log' = Append(log, Promote16(x_Pin(cur)))
            /\ pc' = IF pc = "on" THEN "ret" ELSE "pulse_off"
            /\ UNCHANGED <<Pin, loopback, op, cur, arg, qty, result, prev,
                           disturbed, run, runPulses>>

\* x_on's store, alone or inlined in x_set and x_pulse
Main_on ==
    /\ pc \in {"on", "pulse_on"}
    /\ x_on(cur)
    /\ log' = Append(log, x_on_value(cur))
    /\ pc' = IF pc = "on" THEN "ret" ELSE "pulse_off"
    /\ UNCHANGED <<Pin, loopback, op, cur, arg, qty, tmp, result, prev, disturbed,
                   run, runPulses>>

\* x_off's store, alone or inlined in x_set and x_pulse; in x_pulse the qty--
\* of the loop follows it
Main_off ==
    /\ pc \in {"off", "pulse_off"}
    /\ x_off(cur)
    /\ log' = Append(log, x_off_value(cur))
    /\ pc' = IF pc = "off" THEN "ret" ELSE "pulse_test"
    /\ qty' = IF pc = "off" THEN qty ELSE qty - 1
    /\ runPulses' = IF pc = "pulse_off" /\ run > 0 THEN runPulses + 1 ELSE runPulses
    /\ UNCHANGED <<Pin, loopback, op, cur, arg, tmp, result, prev, disturbed, run>>

Main_set ==
    /\ pc = "set"
    /\ pc' = IF x_set_test(arg) THEN "on" ELSE "off"
    /\ UNCHANGED <<Pin, loopback, ODR, IDR, op, cur, arg, qty, tmp, result, log,
                   lastLevel, prev, disturbed, run, runPulses>>

Main_get_load ==
    /\ pc = "get"
    /\ tmp' = LoadIDR
    /\ pc' = "get_ret"
    /\ UNCHANGED <<Pin, loopback, ODR, IDR, op, cur, arg, qty, result, log,
                   lastLevel, prev, disturbed, run, runPulses>>

Main_get_ret ==
    /\ pc = "get_ret"
    /\ result' = IF cur \in InputNames
                 THEN input_get_value(tmp, cur)
                 ELSE x_get_value(tmp, cur)
    /\ pc' = "ret"
    /\ UNCHANGED <<Pin, loopback, ODR, IDR, op, cur, arg, qty, tmp, log,
                   lastLevel, prev, disturbed, run, runPulses>>

\* the loop as do { ... } while (--qty): the body runs before the first test
Main_pulse_test_dowhile ==
    /\ pc = "pulse_test"
    /\ pc' = IF log = <<>> \/ qty # 0 THEN "pulse_on" ELSE "ret"
    /\ UNCHANGED <<Pin, loopback, ODR, IDR, op, cur, arg, qty, tmp, result, log,
                   lastLevel, prev, disturbed, run, runPulses>>

Main_pulse_test ==
    /\ pc = "pulse_test"
    /\ pc' = IF x_pulse_test(qty) THEN "pulse_on" ELSE "ret"
    /\ UNCHANGED <<Pin, loopback, ODR, IDR, op, cur, arg, qty, tmp, result, log,
                   lastLevel, prev, disturbed, run, runPulses>>

\* ------------------------------------------------------------ interrupt, input
Disturb(x) == IF x # cur /\ disturbed # "any" THEN "other" ELSE "any"

Isr_on(x) ==
    /\ x_on(x)
    /\ disturbed' = Disturb(x)
    /\ UNCHANGED <<Pin, loopback, pc, op, cur, arg, qty, tmp, result, log, prev,
                   run, runPulses>>

Isr_off(x) ==
    /\ x_off(x)
    /\ disturbed' = Disturb(x)
    /\ UNCHANGED <<Pin, loopback, pc, op, cur, arg, qty, tmp, result, log, prev,
                   run, runPulses>>

\* the electrical level of pin x changes (no loop-back)
InputChange(x) ==
    /\ ~loopback
    /\ IDR' = IF Level(IDR, x_Pin(x)) = 1
              THEN BitAndNot(IDR, x_Pin(x))
              ELSE BitOr(IDR, x_Pin(x))
    /\ disturbed' = Disturb(x)
    /\ UNCHANGED <<Pin, loopback, ODR, pc, op, cur, arg, qty, tmp, result, log,
                   lastLevel, prev, run, runPulses>>

\* ------------------------------------------------------------ specification
Init ==
    /\ Pin \in Bindings
    /\ loopback \in BOOLEAN
    /\ (~loopback => Pin \in ExternalBindings)
    /\ ODR \in {0, 65535}
    /\ IDR = IF loopback THEN ODR ELSE 0
    /\ pc = "idle"
    /\ op = "none"
    /\ cur = "dbg"
    /\ arg = Zero32
    /\ qty = 0
    /\ tmp = Zero32
    /\ result = 0
    /\ log = <<>>
    /\ lastLevel = [x \in OutputNames |-> Level(ODR, x_Pin(x))]
    /\ prev = NoPrev
    /\ disturbed = "none"
    /\ run = 0
    /\ runPulses = 0

Next ==
    \/ \E x \in OutputNames : Call_on(x)
    \/ \E x \in OutputNames : Call_off(x)
    \/ \E x \in OutputNames : \E a \in SetArgs : Call_set(x, a)
    \/ \E x \in Names : Call_get(x)
    \/ \E x \in OutputNames : \E q \in 0..MaxQty : Call_pulse(x, q)
    \/ Main_on
    \/ Main_off
    \/ Main_set
    \/ Main_get_load
    \/ Main_get_ret
    \/ Main_pulse_test
    \/ \E x \in OutputNames : Isr_on(x)
    \/ \E x \in OutputNames : Isr_off(x)
    \/ \E x \in Names : InputChange(x)

Spec == Init /\ [][Next]_vars

\* ------------------------------------------------------------ properties
\* a step of the main flow: the only steps that move pc
MainStep == pc' # pc

\* the bit positions set in a 32-bit value
BitsOf(v) ==
    { i \in 0..15 : (v.lo \div (2 ^ i)) % 2 = 1 } \cup
    { i + 16 : i \in { j \in 0..15 : (v.hi \div (2 ^ j)) % 2 = 1 } }

\* the position k of a pin mask 2^k
BitPos(m) == CHOOSE k \in 0..15 : 2 ^ k = m

\* the 16-bit register r without the bit of mask m
Others(r, m) == r - (IF (r \div m) % 2 = 1 THEN m ELSE 0)

\* n set/reset pairs of the pin with mask m
Pairs(n, m) == [i \in 1..(2 * n) |-> IF i % 2 = 1 THEN W(0, m) ELSE W(m, 0)]

\* C1: every step of an operation on pin cur leaves all other bits of the
\* port's output register as they were, and every value it stores to the
\* set/reset register is cur's set bit alone or cur's reset bit alone.
C1_OtherBitsPreserved ==
    [][MainStep =>
          /\ Others(ODR', Pin[cur']) = Others(ODR, Pin[cur'])
          /\ \A i \in 1..Len(log') :
                log'[i] \in {W(0, Pin[cur']), W(Pin[cur'], 0)}]_vars

C1_Witness ==
    /\ pc = "ret" /\ op = "off" /\ cur = "dbg"
    /\ log = <<W(Pin["dbg"], 0)>>
    /\ ODR = 65535 - Pin["dbg"]

\* C2: in every interleaving of the main flow's operations with the
\* interrupt's on/off, the output level of every pin is the level of the last
\* write issued for it: no update is lost.
C2_NoLostUpdate ==
    \A x \in OutputNames : (ODR \div Pin[x]) % 2 = lastLevel[x]

C2_Witness ==
    /\ op = "pulse" /\ cur = "dbg" /\ pc = "pulse_off"
    /\ loopback /\ disturbed = "other"
    /\ lastLevel = [x \in OutputNames |-> 1]
    /\ ODR = Pin["dbg"] + Pin["led"]

\* C3: x_set(v) stores exactly what x_on() stores when v is nonzero and what
\* x_off() stores when v is 0, and with loop-back an x_get() that follows
\* returns 1 when v is nonzero and 0 when v is 0.
C3_SetIsOnOrOff ==
    /\ (pc = "ret" /\ op = "set") =>
          log = <<IF arg # Zero32 THEN W(0, Pin[cur]) ELSE W(Pin[cur], 0)>>
    /\ (pc = "ret" /\ op = "get" /\ prev.op = "set" /\ loopback
           /\ disturbed # "any") =>
          result = (IF prev.arg # Zero32 THEN 1 ELSE 0)

C3_Witness ==
    /\ pc = "ret" /\ op = "get" /\ prev.op = "set" /\ prev.arg = W(32768, 0)
    /\ loopback /\ disturbed = "none" /\ result = 1

\* C4: with loop-back, x_get() called after x_on() returns 1.
C4_GetAfterOn ==
    (pc = "ret" /\ op = "get" /\ prev.op = "on" /\ loopback /\ disturbed # "any")
        => result = 1

C4_Witness ==
    /\ pc = "ret" /\ op = "get" /\ prev.op = "on" /\ loopback
    /\ disturbed = "none" /\ result = 1 /\ ODR = Pin[cur]

\* C5: with loop-back, x_get() called after x_off() returns 0.
C5_GetAfterOff ==
    (pc = "ret" /\ op = "get" /\ prev.op = "off" /\ loopback /\ disturbed # "any")
        => result = 0

C5_Witness ==
    /\ pc = "ret" /\ op = "get" /\ prev.op = "off" /\ loopback
    /\ disturbed = "none" /\ result = 0 /\ ODR = 65535 - Pin[cur]

\* C6: x_pulse(n) stores exactly n set/reset pairs, alternating and starting
\* with the set, then returns; for n >= 1 it leaves the pin low.
C6_PulsePairs ==
    (pc = "ret" /\ op = "pulse") =>
        /\ log = Pairs(arg.lo, Pin[cur])
        /\ (arg.lo >= 1 /\ disturbed # "any") => (ODR \div Pin[cur]) % 2 = 0

C6_Witness ==
    /\ pc = "ret" /\ op = "pulse" /\ arg = W(0, 3) /\ Len(log) = 6
    /\ prev.op = "on" /\ disturbed = "none"
    /\ (ODR \div Pin[cur]) % 2 = 0

\* C7: no step of x_pulse(0) stores to a register: the output register stays
\* as it was and the call's list of stores stays empty.
C7_PulseZero ==
    [][(MainStep /\ op' = "pulse" /\ arg' = Zero32) =>
          (ODR' = ODR /\ IDR' = IDR /\ log' = <<>>)]_vars

C7_Witness ==
    /\ pc = "ret" /\ op = "pulse" /\ arg = Zero32 /\ log = <<>>
    /\ prev.op = "on" /\ disturbed = "none"
    /\ (ODR \div Pin[cur]) % 2 = 1

\* C8: no step of x_get(), of either generator, changes a register or stores
\* to one, and its result is 1 when the pin's bit of the input register is set
\* and 0 otherwise, whatever the output latch holds.
C8_GetPureRead ==
    /\ [][(MainStep /\ op' = "get") =>
             (ODR' = ODR /\ IDR' = IDR /\ log' = <<>> /\ lastLevel' = lastLevel)]_vars
    /\ []((pc = "ret" /\ op = "get" /\ disturbed # "any") =>
             result = (IDR \div Pin[cur]) % 2)

C8_Witness ==
    /\ pc = "ret" /\ op = "get" /\ cur = "dbg" /\ ~loopback
    /\ disturbed = "none"
    /\ result = 1
    /\ (ODR \div Pin[cur]) % 2 = 0

\* C9: for the pin at position k, x_on() stores a value with the single bit k
\* set and x_off() a value with the single bit k + 16 set, for k = 15 too.
C9_SingleBit ==
    /\ (pc = "ret" /\ op = "on") =>
          (Len(log) = 1 /\ BitsOf(log[1]) = {BitPos(Pin[cur])})
    /\ (pc = "ret" /\ op = "off") =>
          (Len(log) = 1 /\ BitsOf(log[1]) = {BitPos(Pin[cur]) + 16})

C9_Witness ==
    /\ pc = "ret" /\ op = "off" /\ Pin[cur] = 32768
    /\ BitsOf(log[1]) = {31}

\* C10: a second x_on(), x_off() or x_set(v) right after the same call leaves
\* the registers as the first left them; a second x_get() with no input change
\* returns what the first returned; a run of n calls of x_pulse(1) has stored
\* n set/reset pairs.
C10_Idempotent ==
    /\ [][(MainStep /\ op' \in {"on", "off", "set"} /\ prev'.op = op'
              /\ prev'.arg = arg' /\ disturbed = "none") =>
             (ODR' = ODR /\ IDR' = IDR)]_vars
    /\ []((pc = "ret" /\ op = "get" /\ prev.op = "get" /\ disturbed = "none") =>
             result = prev.result)
    /\ []((pc = "ret" /\ run > 0) => runPulses = run)

C10_Witness ==
    /\ pc = "ret" /\ op = "on" /\ prev.op = "on" /\ disturbed = "none"
    /\ ODR = Pin[cur]

====
